---- MODULE Spec2Model ----
(***************************************************************************)
(* NestJS + Next.js single-process gateway.                                *)
(*                                                                         *)
(*   NextService  (apps/backend/src/next/next.service.ts): the lazily      *)
(*                 initialised renderer, guarded by readyPromise.          *)
(*   bootstrap    (apps/backend/src/main.ts): the startup sequence and the *)
(*                 router middleware that splits /api from the frontend.   *)
(*                                                                         *)
(* JavaScript runs on one thread.  Every action below is one synchronous   *)
(* run-to-completion block.  Continuations of `await` are promise jobs,    *)
(* kept in the FIFO queue mq and run one at a time from its head.          *)
(***************************************************************************)
EXTENDS Integers, Sequences, FiniteSets, TLC

\* ---------------------------------------------------------------- bounds
NumCallers == 3
MaxAttempts == 3
MaxCalls == 4
MaxReqs == 2

\* ------------------------------------------------------------- constants
Null == 0

EnvCallers == 1..NumCallers
Boot == NumCallers + 1
Hook == NumCallers + 2
AllCallers == EnvCallers \cup {Boot, Hook}
Attempts == 1..MaxAttempts
Reqs == 1..MaxReqs

VARIABLES
    server,        \* NextService.server: Null or the instance made by attempt k
    readyPromise,  \* NextService.readyPromise: Null or the promise of attempt k
    promise,       \* state of the promise returned by the k-th initializeNext()
    prep,          \* state of the k-th server.prepare()
    numStarted,    \* number of initializeNext() invocations so far
    waiters,       \* reactions registered on the promise of attempt k, in order
    mq,            \* the promise job queue
    caller,        \* each caller's latest ensureReady() invocation
    calls,         \* number of ensureReady() invocations issued by clients
    grh,           \* outcome of the latest client call of getRequestHandler()
                   \* or getNextServer()
    bootPc,        \* position of bootstrap()
    pipeline,      \* request-processing units in registration order
    globalPrefix,  \* the prefix given to setGlobalPrefix
    handle,        \* the handler captured by bootstrap
    listening,     \* the HTTP listener accepts connections
    reportedReady, \* bootstrap printed the "Server running" lines
    unhandled,     \* a promise rejected with nobody handling it
    req            \* the requests

gateVars == <<server, readyPromise, promise, prep, numStarted, waiters, mq,
              caller, calls, grh>>
appVars == <<bootPc, pipeline, globalPrefix, handle, listening, reportedReady,
             unhandled, req>>
vars == <<server, readyPromise, promise, prep, numStarted, waiters, mq,
          caller, calls, grh, bootPc, pipeline, globalPrefix, handle,
          listening, reportedReady, unhandled, req>>

\* ------------------------------------------------------------ promise jobs
CallJob(c) == [kind |-> "call", who |-> c, att |-> 0, ok |-> TRUE]
ResumeJob(c, k) == [kind |-> "resume", who |-> c, att |-> k, ok |-> TRUE]
InitJob(k, ok) == [kind |-> "init", who |-> 0, att |-> k, ok |-> ok]

RECURSIVE ResumeJobs(_, _)
ResumeJobs(ws, k) ==
    IF ws = <<>> THEN <<>>
    ELSE <<ResumeJob(Head(ws), k)>> \o ResumeJobs(Tail(ws), k)

\* ------------------------------------------------------------- NextService
\* next({dev, dir}): a fresh server object, named after the attempt making it
next(k) == k

\* ensureReady, `if (!this.readyPromise)`
ShouldStartAlways == TRUE
ShouldStart == readyPromise = Null

IdleCaller == [st |-> "idle", att |-> 0, starter |-> FALSE, inFlight |-> 0]

\* attempts whose promise is unsettled / fulfilled
Pending == {k \in Attempts : promise[k] = "pending"}
Succeeded == {k \in Attempts : promise[k] = "fulfilled"}

\* The synchronous part of ensureReady() run by caller c, up to its await;
\* q is the job queue the continuation is appended to.  When no attempt is
\* recorded it runs initializeNext() up to `await this.server.prepare()`
\* (or through its catch block, should next() give no server).
\* inFlight (history): the attempt in flight when the call is made, if no
\* attempt has succeeded by then.
EnsureReadySyncNoWait(c, q) ==
    LET start == ShouldStart
        k == IF start THEN numStarted + 1 ELSE readyPromise
        created == next(k)
        inFlight == IF Succeeded = {} /\ Pending # {}
                    THEN CHOOSE j \in Pending : \A i \in Pending : j <= i
                    ELSE 0
    IN  /\ start => numStarted < MaxAttempts
        /\ numStarted' = IF start THEN k ELSE numStarted
        /\ server' = IF start THEN created ELSE server
        /\ prep' = IF start /\ created # Null
                   THEN [prep EXCEPT ![k] = "running"] ELSE prep
        /\ promise' = IF start
                      THEN [promise EXCEPT ![k] = IF created # Null THEN "pending"
                                                  ELSE "rejected"]
                      ELSE promise
        /\ readyPromise' = k
        /\ caller' = [caller EXCEPT ![c] = [st |-> "waiting", att |-> k,
                                            starter |-> start,
                                            inFlight |-> inFlight]]
        /\ waiters' = waiters
        /\ mq' = Append(q, ResumeJob(c, k))

EnsureReadySync(c, q) ==
    LET start == ShouldStart
        k == IF start THEN numStarted + 1 ELSE readyPromise
        created == next(k)
        inFlight == IF Succeeded = {} /\ Pending # {}
                    THEN CHOOSE j \in Pending : \A i \in Pending : j <= i
                    ELSE 0
    IN  /\ start => numStarted < MaxAttempts
        /\ numStarted' = IF start THEN k ELSE numStarted
        /\ server' = IF start THEN created ELSE server
        /\ prep' = IF start /\ created # Null
                   THEN [prep EXCEPT ![k] = "running"] ELSE prep
        /\ promise' = IF start
                      THEN [promise EXCEPT ![k] = IF created # Null THEN "pending"
                                                  ELSE "rejected"]
                      ELSE promise
        /\ readyPromise' = k
        /\ caller' = [caller EXCEPT ![c] = [st |-> "waiting", att |-> k,
                                            starter |-> start,
                                            inFlight |-> inFlight]]
        /\ IF promise'[k] = "pending"
           THEN /\ waiters' = [waiters EXCEPT ![k] = Append(@, c)]
                /\ mq' = q
           ELSE /\ waiters' = waiters
                /\ mq' = Append(q, ResumeJob(c, k))

\* A client schedules a call of ensureReady() (a job of its own).
EnvCall(c) ==
    /\ c \in EnvCallers
    /\ caller[c].st \in {"idle", "resolved", "rejected"}
    /\ calls < MaxCalls
    /\ calls' = calls + 1
    /\ caller' = [caller EXCEPT ![c] = [IdleCaller EXCEPT !.st = "queued"]]
    /\ mq' = Append(mq, CallJob(c))
    /\ UNCHANGED <<server, readyPromise, promise, prep, numStarted, waiters, grh>>
    /\ UNCHANGED appVars

\* The scheduled call runs: ensureReady() up to its await.
RunCall ==
    /\ mq # <<>>
    /\ Head(mq).kind = "call"
    /\ EnsureReadySync(Head(mq).who, Tail(mq))
    /\ UNCHANGED <<calls, grh>>
    /\ UNCHANGED appVars

\* server.prepare() settles; initializeNext's continuation becomes a job.
PrepareSettles(k, ok) ==
    /\ prep[k] = "running"
    /\ prep' = [prep EXCEPT ![k] = IF ok THEN "prepared" ELSE "failed"]
    /\ mq' = Append(mq, InitJob(k, ok))
    /\ UNCHANGED <<server, readyPromise, promise, numStarted, waiters, caller,
                   calls, grh>>
    /\ UNCHANGED appVars

\* initializeNext after its await: log and return, or the catch block
\* (`this.server = null; throw error`).  Settling the promise queues the
\* continuation of every registered waiter, in registration order.
RunInit ==
    /\ mq # <<>>
    /\ Head(mq).kind = "init"
    /\ LET k == Head(mq).att
           ok == Head(mq).ok
       IN  /\ server' = IF ok THEN server ELSE Null
           /\ promise' = [promise EXCEPT ![k] = IF ok THEN "fulfilled" ELSE "rejected"]
           /\ mq' = Tail(mq) \o ResumeJobs(waiters[k], k)
           /\ waiters' = [waiters EXCEPT ![k] = <<>>]
    /\ UNCHANGED <<readyPromise, prep, numStarted, caller, calls, grh>>
    /\ UNCHANGED appVars

\* ensureReady after `await this.readyPromise`: return, or the catch block
\* (`this.readyPromise = null; throw error`).
RunResume ==
    /\ mq # <<>>
    /\ Head(mq).kind = "resume"
    /\ LET c == Head(mq).who
           k == Head(mq).att
       IN  IF promise[k] = "fulfilled"
           THEN /\ caller' = [caller EXCEPT ![c].st = "resolved"]
                /\ readyPromise' = readyPromise
           ELSE /\ caller' = [caller EXCEPT ![c].st = "rejected"]
                /\ readyPromise' = Null
    /\ mq' = Tail(mq)
    /\ UNCHANGED <<server, promise, prep, numStarted, waiters, calls, grh>>
    /\ UNCHANGED appVars

\* getRequestHandler(): throws while this.server is null
GetRequestHandler(srv) == IF srv = Null THEN "threw" ELSE "handler"

EnvGetRequestHandler ==
    /\ grh' = GetRequestHandler(server)
    /\ grh' # grh
    /\ UNCHANGED <<server, readyPromise, promise, prep, numStarted, waiters, mq,
                   caller, calls>>
    /\ UNCHANGED appVars

\* getNextServer(): throws while this.server is null
GetNextServer(srv) == IF srv = Null THEN "threw" ELSE "server"

EnvGetNextServer ==
    /\ grh' = GetNextServer(server)
    /\ grh' # grh
    /\ UNCHANGED <<server, readyPromise, promise, prep, numStarted, waiters, mq,
                   caller, calls>>
    /\ UNCHANGED appVars

\* --------------------------------------------------------------- bootstrap
\* the statements of bootstrap() in program order
BootOrderListenFirst ==
    <<"create", "enableCors", "setGlobalPrefix", "ensureReady",
      "getRequestHandler", "listen", "use", "log", "done">>
BootOrder ==
    <<"create", "enableCors", "setGlobalPrefix", "ensureReady",
      "getRequestHandler", "use", "listen", "log", "done">>

StepAfter(s) ==
    LET i == CHOOSE j \in 1..Len(BootOrder) : BootOrder[j] = s
    IN  BootOrder[i + 1]

\* const apiPrefix = 'api'
apiPrefix == <<"a", "p", "i">>

\* `await` in bootstrap: the continuation runs once the awaited call settled
BootMayResumeAlways(c) == TRUE
BootMayResume(c) == caller[c].st \in {"resolved", "rejected"}

\* const app = await NestFactory.create(AppModule)
BootCreate ==
    /\ bootPc = "create"
    /\ bootPc' = StepAfter("create")
    /\ UNCHANGED gateVars
    /\ UNCHANGED <<pipeline, globalPrefix, handle, listening, reportedReady,
                   unhandled, req>>

\* app.enableCors(): the adapter registers the CORS middleware at once
BootEnableCors ==
    /\ bootPc = "enableCors"
    /\ pipeline' = Append(pipeline, "cors")
    /\ bootPc' = StepAfter("enableCors")
    /\ UNCHANGED gateVars
    /\ UNCHANGED <<globalPrefix, handle, listening, reportedReady, unhandled, req>>

\* app.setGlobalPrefix(apiPrefix)
BootSetGlobalPrefix ==
    /\ bootPc = "setGlobalPrefix"
    /\ globalPrefix' = apiPrefix
    /\ bootPc' = StepAfter("setGlobalPrefix")
    /\ UNCHANGED gateVars
    /\ UNCHANGED <<pipeline, handle, listening, reportedReady, unhandled, req>>

\* await nextService.ensureReady(): the call
BootEnsureReady ==
    /\ bootPc = "ensureReady"
    /\ EnsureReadySync(Boot, mq)
    /\ bootPc' = "awaitReady"
    /\ UNCHANGED <<calls, grh>>
    /\ UNCHANGED <<pipeline, globalPrefix, handle, listening, reportedReady,
                   unhandled, req>>

\* await nextService.ensureReady(): the continuation.  A rejection leaves
\* bootstrap() rejected, and `bootstrap();` handles it nowhere.
BootAfterReady ==
    /\ bootPc = "awaitReady"
    /\ BootMayResume(Boot)
    /\ IF caller[Boot].st = "rejected"
       THEN bootPc' = "failed" /\ unhandled' = TRUE
       ELSE bootPc' = StepAfter("ensureReady") /\ unhandled' = unhandled
    /\ UNCHANGED gateVars
    /\ UNCHANGED <<pipeline, globalPrefix, handle, listening, reportedReady, req>>

\* const handle = nextService.getRequestHandler()
BootGetRequestHandler ==
    /\ bootPc = "getRequestHandler"
    /\ IF GetRequestHandler(server) = "threw"
       THEN bootPc' = "failed" /\ unhandled' = TRUE /\ handle' = handle
       ELSE bootPc' = StepAfter("getRequestHandler") /\ unhandled' = unhandled
            /\ handle' = server
    /\ UNCHANGED gateVars
    /\ UNCHANGED <<pipeline, globalPrefix, listening, reportedReady, req>>

\* server.use(async (req, res, next) => ...)
BootUse ==
    /\ bootPc = "use"
    /\ pipeline' = Append(pipeline, "router")
    /\ bootPc' = StepAfter("use")
    /\ UNCHANGED gateVars
    /\ UNCHANGED <<globalPrefix, handle, listening, reportedReady, unhandled, req>>

\* await app.listen(port): the application initialises first, which
\* registers the controllers' routes and runs the module-init hooks
\* (NextService.onModuleInit: `await this.ensureReady()`)
BootListen ==
    /\ bootPc = "listen"
    /\ pipeline' = Append(pipeline, "routes")
    /\ EnsureReadySync(Hook, mq)
    /\ bootPc' = "awaitHook"
    /\ UNCHANGED <<calls, grh>>
    /\ UNCHANGED <<globalPrefix, handle, listening, reportedReady, unhandled, req>>

\* app.listen(port) once the hook settled: the socket is bound
BootListening ==
    /\ bootPc = "awaitHook"
    /\ BootMayResume(Hook)
    /\ IF caller[Hook].st = "rejected"
       THEN bootPc' = "failed" /\ unhandled' = TRUE /\ listening' = listening
       ELSE bootPc' = StepAfter("listen") /\ unhandled' = unhandled
            /\ listening' = TRUE
    /\ UNCHANGED gateVars
    /\ UNCHANGED <<pipeline, globalPrefix, handle, reportedReady, req>>

\* console.log(`Server running at ...`) and the two lines after it
BootLog ==
    /\ bootPc = "log"
    /\ reportedReady' = TRUE
    /\ bootPc' = StepAfter("log")
    /\ UNCHANGED gateVars
    /\ UNCHANGED <<pipeline, globalPrefix, handle, listening, unhandled, req>>

\* ----------------------------------------------------------------- requests
Root == <<"/">>
About == <<"/", "a", "b">>
Ap == <<"/", "a", "p">>
Api == <<"/", "a", "p", "i">>
ApiStatus == <<"/", "a", "p", "i", "/", "s">>
ApiDocs == <<"/", "a", "p", "i", "-", "d">>
Urls == {Root, About, Ap, Api, ApiStatus, ApiDocs}

\* String.prototype.startsWith
startsWith(s, p) == Len(s) >= Len(p) /\ SubSeq(s, 1, Len(p)) = p

\* req.url.startsWith(`/${apiPrefix}`)
IsApiUrlNoSlash(u) == startsWith(u, apiPrefix)
IsApiUrl(u) == startsWith(u, <<"/">> \o apiPrefix)

\* AppController under the global prefix: @Get() and @Get('status')
RouteNoPrefix(u) ==
    IF u = <<"/">> THEN "hello"
    ELSE IF u = <<"/", "s">> THEN "status"
    ELSE "notFound"
Route(u) ==
    IF u = <<"/">> \o globalPrefix THEN "hello"
    ELSE IF u = <<"/">> \o globalPrefix \o <<"/", "s">> THEN "status"
    ELSE "notFound"

InPipeline(r, unit) ==
    /\ req[r].st = "pipeline"
    /\ req[r].pos <= Len(pipeline)
    /\ pipeline[req[r].pos] = unit

\* a connection is accepted and the request enters the middleware chain
Receive(r, u) ==
    /\ listening
    /\ req[r].st = "none"
    /\ req' = [req EXCEPT ![r] =
                 [st |-> "pipeline", url |-> u, pos |-> 1, cls |-> "none",
                  nextPlain |-> 0, nextErr |-> 0, handled |-> 0,
                  rejected |-> FALSE, cors |-> FALSE, resp |-> "none",
                  order |-> 1 + Cardinality({q \in Reqs : req[q].st # "none"})]]
    /\ UNCHANGED gateVars
    /\ UNCHANGED <<bootPc, pipeline, globalPrefix, handle, listening,
                   reportedReady, unhandled>>

\* the CORS middleware sets its headers and calls next()
CorsMiddleware(r) ==
    /\ InPipeline(r, "cors")
    /\ req' = [req EXCEPT ![r].cors = TRUE, ![r].pos = @ + 1]
    /\ UNCHANGED gateVars
    /\ UNCHANGED <<bootPc, pipeline, globalPrefix, handle, listening,
                   reportedReady, unhandled>>

\* the router middleware up to `return next()` or `await handle(req, res)`
RouterMiddlewareLazy(r) ==
    /\ InPipeline(r, "router")
    /\ IF startsWith(req[r].url, <<"/">> \o apiPrefix)
       THEN req' = [req EXCEPT ![r].cls = "api", ![r].nextPlain = @ + 1,
                               ![r].pos = @ + 1]
       ELSE req' = [req EXCEPT ![r].cls = "frontend", ![r].handled = @ + 1,
                               ![r].st = "rendering"]
    /\ EnsureReadySync(Hook, mq)
    /\ UNCHANGED <<calls, grh>>
    /\ UNCHANGED <<bootPc, pipeline, globalPrefix, handle, listening,
                   reportedReady, unhandled>>
RouterMiddleware(r) ==
    /\ InPipeline(r, "router")
    /\ IF IsApiUrl(req[r].url)
       THEN req' = [req EXCEPT ![r].cls = "api", ![r].nextPlain = @ + 1,
                               ![r].pos = @ + 1]
       ELSE req' = [req EXCEPT ![r].cls = "frontend", ![r].handled = @ + 1,
                               ![r].st = "rendering"]
    /\ UNCHANGED gateVars
    /\ UNCHANGED <<bootPc, pipeline, globalPrefix, handle, listening,
                   reportedReady, unhandled>>

\* `await handle(req, res)` settles: fall out of the try, or
\* `catch (error) { next(error) }`
HandlerSettlesNoCatch(r, ok) ==
    /\ req[r].st = "rendering"
    /\ IF ok
       THEN req' = [req EXCEPT ![r].st = "completed", ![r].resp = "page"]
            /\ unhandled' = unhandled
       ELSE req' = [req EXCEPT ![r].st = "lost", ![r].rejected = TRUE]
            /\ unhandled' = TRUE
    /\ UNCHANGED gateVars
    /\ UNCHANGED <<bootPc, pipeline, globalPrefix, handle, listening, reportedReady>>
HandlerSettles(r, ok) ==
    /\ req[r].st = "rendering"
    /\ IF ok
       THEN req' = [req EXCEPT ![r].st = "completed", ![r].resp = "page"]
       ELSE req' = [req EXCEPT ![r].st = "forwardedError", ![r].rejected = TRUE,
                               ![r].nextErr = @ + 1, ![r].resp = "error"]
    /\ UNCHANGED gateVars
    /\ UNCHANGED <<bootPc, pipeline, globalPrefix, handle, listening,
                   reportedReady, unhandled>>

\* the controllers' routes, reached through next()
ApiDispatch(r) ==
    /\ InPipeline(r, "routes")
    /\ req' = [req EXCEPT ![r].st = "completed", ![r].resp = Route(req[r].url)]
    /\ UNCHANGED gateVars
    /\ UNCHANGED <<bootPc, pipeline, globalPrefix, handle, listening,
                   reportedReady, unhandled>>

\* ------------------------------------------------------------------- Init
NoReq == [st |-> "none", url |-> <<>>, pos |-> 0, cls |-> "none",
          nextPlain |-> 0, nextErr |-> 0, handled |-> 0, rejected |-> FALSE,
          cors |-> FALSE, resp |-> "none", order |-> 0]

Init ==
    /\ server = Null
    /\ readyPromise = Null
    /\ promise = [k \in Attempts |-> "unstarted"]
    /\ prep = [k \in Attempts |-> "none"]
    /\ numStarted = 0
    /\ waiters = [k \in Attempts |-> <<>>]
    /\ mq = <<>>
    /\ caller = [c \in AllCallers |-> IdleCaller]
    /\ calls = 0
    /\ grh = "none"
    /\ bootPc = "create"
    /\ pipeline = <<>>
    /\ globalPrefix = <<>>
    /\ handle = Null
    /\ listening = FALSE
    /\ reportedReady = FALSE
    /\ unhandled = FALSE
    /\ req = [r \in Reqs |-> NoReq]

\* NextService used by arbitrary clients
NextGate ==
    \/ \E c \in EnvCallers : EnvCall(c)
    \/ RunCall
    \/ \E k \in Attempts, ok \in BOOLEAN : PrepareSettles(k, ok)
    \/ RunInit
    \/ RunResume
    \/ EnvGetRequestHandler
    \/ EnvGetNextServer

SpecGate == Init /\ [][NextGate]_vars

\* the program: bootstrap, the module-init hook and the requests
NextApp ==
    \/ BootCreate
    \/ BootEnableCors
    \/ BootSetGlobalPrefix
    \/ BootEnsureReady
    \/ BootAfterReady
    \/ BootGetRequestHandler
    \/ BootUse
    \/ BootListen
    \/ BootListening
    \/ BootLog
    \/ \E k \in Attempts, ok \in BOOLEAN : PrepareSettles(k, ok)
    \/ RunInit
    \/ RunResume
    \/ \E r \in Reqs, u \in Urls : Receive(r, u)
    \/ \E r \in Reqs : CorsMiddleware(r)
    \/ \E r \in Reqs : RouterMiddleware(r)
    \/ \E r \in Reqs, ok \in BOOLEAN : HandlerSettles(r, ok)
    \/ \E r \in Reqs : ApiDispatch(r)

SpecApp == Init /\ [][NextApp]_vars

\* The steps of the middleware chain are synchronous code the event loop
\* runs once it is due; the delegated handler is taken to settle.
RequestStep ==
    \E r \in Reqs :
        \/ CorsMiddleware(r)
        \/ RouterMiddleware(r)
        \/ ApiDispatch(r)
        \/ \E ok \in BOOLEAN : HandlerSettles(r, ok)

SpecAppFair == SpecApp /\ WF_vars(RequestStep)

\* ================================================================== claims
Settled(c) == caller[c].st \in {"resolved", "rejected"}
Units == {pipeline[i] : i \in 1..Len(pipeline)}
IndexOf(unit) == CHOOSE i \in 1..Len(pipeline) : pipeline[i] = unit

\* C1: a call of ensureReady() made while an attempt is in flight and none
\* has succeeded starts no preparation routine and awaits that attempt;
\* until an attempt has settled initializeNext has been started at most once
\* however many calls were made; and the calls awaiting one attempt that
\* have returned all have the same outcome.
C1_SingleFlight ==
    /\ \A c \in AllCallers :
          caller[c].inFlight # 0 =>
              /\ ~caller[c].starter
              /\ caller[c].att = caller[c].inFlight
    /\ (\A k \in Attempts : promise[k] \in {"unstarted", "pending"}) =>
          numStarted <= 1
    /\ \A c, d \in AllCallers :
          (caller[c].att # 0 /\ caller[c].att = caller[d].att
              /\ Settled(c) /\ Settled(d)) => caller[c].st = caller[d].st

\* C2: at most one preparation routine is in flight at a time.
C2_AtMostOneInFlight == Cardinality(Pending) <= 1

\* C3: when the last waiter of a failed attempt has observed the failure,
\* readyPromise and server are both absent (and so the next call of
\* ensureReady() starts a new attempt).
C3_LastWaiterObserves(k) ==
    /\ mq # <<>>
    /\ Head(mq).kind = "resume"
    /\ Head(mq).att = k
    /\ promise[k] = "rejected"
    /\ {c \in AllCallers : caller[c].st = "waiting" /\ caller[c].att = k}
          = {Head(mq).who}
    /\ caller'[Head(mq).who].st = "rejected"
C3_FailureLeavesGateClean ==
    [][\A k \in Attempts :
          C3_LastWaiterObserves(k) => (readyPromise' = Null /\ server' = Null)]_vars

\* C4: as long as no preparation attempt has succeeded, the handle is absent
\* and getRequestHandler() fails with the uninitialized error.
C4_NoHandlerBeforeSuccess ==
    (Succeeded = {}) => (server = Null /\ GetRequestHandler(server) = "threw")

\* the API prefix, character by character
HasApiPrefix(u) ==
    /\ Len(u) >= 4
    /\ u[1] = "/" /\ u[2] = "a" /\ u[3] = "p" /\ u[4] = "i"

\* C5: a request whose path starts with /api is passed on by next() and the
\* renderer's handler is never invoked for it; any other request is given to
\* the renderer's handler and next() without argument is never called for it.
C5_Classification ==
    \A r \in Reqs :
        /\ req[r].cls = "none" => (req[r].nextPlain = 0 /\ req[r].handled = 0)
        /\ req[r].cls # "none" =>
             IF HasApiPrefix(req[r].url)
             THEN req[r].cls = "api" /\ req[r].nextPlain = 1 /\ req[r].handled = 0
             ELSE req[r].cls = "frontend" /\ req[r].handled = 1
                  /\ req[r].nextPlain = 0
                  /\ req[r].resp \in {"none", "page", "error"}

\* one request of each class has been served to its end
C5_Witness ==
    \E r, q \in Reqs :
        /\ req[r].url = ApiStatus /\ req[r].st = "completed"
        /\ req[q].url = Root /\ req[q].st = "completed"

\* C6: a request for /api-docs is classified as frontend and the renderer's
\* handler is invoked for it.
C6_ApiDocsIsFrontend ==
    \A r \in Reqs :
        (req[r].url = ApiDocs /\ req[r].cls # "none") =>
            (req[r].cls = "frontend" /\ req[r].handled = 1 /\ req[r].nextPlain = 0)

\* C7: a request whose handler rejected has been forwarded by next(error)
\* exactly once, nothing is left as an unhandled rejection and the listener
\* stays up; next(error) is called for no other request.
C7_ErrorForwardedOnce ==
    /\ \A r \in Reqs :
          /\ req[r].rejected =>
               (req[r].st = "forwardedError" /\ req[r].nextErr = 1)
          /\ ~req[r].rejected => req[r].nextErr = 0
    /\ (\E r \in Reqs : req[r].rejected) => (~unhandled /\ listening)

\* a handler rejected, and a request received after it was served
C7_Witness ==
    \E r, q \in Reqs :
        /\ req[r].rejected /\ req[r].nextErr = 1
        /\ req[q].order > req[r].order /\ req[q].st = "completed"
        /\ req[q].resp = "page"

\* C8: the router is installed, the listener accepts and the renderer's
\* handler is invoked only after bootstrap's ensureReady() has resolved on a
\* preparation attempt that succeeded.
C8_ReadyBeforeServing ==
    LET ready == caller[Boot].st = "resolved" /\ caller[Boot].att \in Succeeded
    IN  /\ "router" \in Units => ready
        /\ handle # Null => ready
        /\ listening => ready
        /\ \A r \in Reqs : req[r].st # "none" => ready

\* the renderer's handler is serving a request
C8_Witness == \E r \in Reqs : req[r].st = "rendering" /\ req[r].handled = 1

\* C9: if the preparation awaited by bootstrap fails, the router is never
\* installed, the listener never starts and the server never reports ready.
C9_BootFailure ==
    (caller[Boot].att # 0 /\ promise[caller[Boot].att] = "rejected") =>
        /\ "router" \notin Units
        /\ ~listening
        /\ ~reportedReady
        /\ handle = Null
        /\ bootPc \in {"awaitReady", "failed"}
        /\ \A r \in Reqs : req[r].st = "none"

\* bootstrap has failed on the rejected preparation
C9_Witness ==
    /\ bootPc = "failed"
    /\ unhandled
    /\ caller[Boot].st = "rejected"

C11_RootIsApi ==
    \A r \in Reqs :
        (req[r].url = Root /\ req[r].st = "completed") => req[r].resp = "hello"

\* C11 as amended: the greeting of the API Layer is served at /api; a
\* request for / is classified as frontend and given to the renderer's
\* handler, and the API route dispatch never answers it.
C11_GreetingAtApi ==
    \A r \in Reqs :
        /\ (req[r].url = Api /\ req[r].st = "completed") =>
               (req[r].cls = "api" /\ req[r].resp = "hello")
        /\ (req[r].url = Root /\ req[r].cls # "none") =>
               /\ req[r].cls = "frontend"
               /\ req[r].handled = 1
               /\ req[r].resp \in {"none", "page", "error"}

\* / was rendered as a page and /api answered with the greeting
C11_Witness ==
    \E r, q \in Reqs :
        /\ req[r].url = Root /\ req[r].resp = "page"
        /\ req[q].url = Api /\ req[q].resp = "hello"

\* C12: once a preparation attempt has succeeded, readyPromise stays the
\* promise of a succeeded attempt and no call of ensureReady() starts
\* another preparation routine.
C12_NoRestartAfterSuccess ==
    [][Succeeded # {} =>
          (numStarted' = numStarted /\ readyPromise' \in Succeeded')]_vars

\* C13: after a preparation attempt has succeeded, no operation reassigns
\* or clears server.
C13_HandleFrozenAfterSuccess ==
    [][Succeeded # {} => server' = server]_vars

\* C14: when a waiter of failed attempt k sets readyPromise to null,
\* readyPromise is the promise of attempt k or already null.
C14_ClearLeavesNewerAttempt ==
    [][\A k \in Attempts :
          (/\ mq # <<>>
           /\ Head(mq).kind = "resume"
           /\ Head(mq).att = k
           /\ promise[k] = "rejected"
           /\ caller[Head(mq).who].st = "waiting"
           /\ caller'[Head(mq).who].st = "rejected")
          => readyPromise \in {Null, k}]_vars

\* C15: a step of request handling starts no preparation attempt and calls
\* ensureReady() for nobody: server, readyPromise, the attempts, the callers
\* of ensureReady(), the job queue and the captured handler stay as they are.
C15_RequestsLeaveGateAlone ==
    [][req' # req =>
          /\ server' = server
          /\ readyPromise' = readyPromise
          /\ numStarted' = numStarted
          /\ promise' = promise
          /\ caller' = caller
          /\ mq' = mq
          /\ handle' = handle]_vars

\* requests were served by the renderer and by the API after one preparation
C15_Witness ==
    /\ numStarted = 1 /\ readyPromise = 1 /\ server = 1 /\ handle = 1
    /\ caller[Hook].st = "resolved"
    /\ \E r, q \in Reqs : req[r].resp = "page" /\ req[q].resp = "status"

C16_Terminal == {"completed", "forwardedError"}

C16_Shape(r) ==
    /\ req[r].st \in {"none", "pipeline", "rendering"} \cup C16_Terminal
    /\ req[r].cls # "none" => req[r].nextPlain + req[r].handled = 1
    /\ req[r].st = "rendering" => req[r].cls = "frontend"
    /\ req[r].st = "completed" =>
          (req[r].cls # "none" /\ req[r].nextErr = 0 /\ ~req[r].rejected)
    /\ req[r].st = "forwardedError" =>
          (req[r].cls = "frontend" /\ req[r].nextErr = 1 /\ req[r].resp # "page")

C16_Moves(r) ==
    \/ req'[r].st = req[r].st
    \/ req[r].st = "none" /\ req'[r].st = "pipeline"
    \/ req[r].st = "pipeline" /\ req[r].cls = "none" /\ req'[r].st = "rendering"
    \/ req[r].st = "pipeline" /\ req[r].cls = "api" /\ req'[r].st = "completed"
    \/ req[r].st = "rendering" /\ req'[r].st \in C16_Terminal

\* C16: every request goes received -> classified -> dispatched, is
\* dispatched exactly once, ends in at most one of completed and
\* forwarded-error and stays there, and (the delegated component settling)
\* there comes a time after which every received request is in one of them.
C16_RequestLifecycle ==
    /\ [](\A r \in Reqs : C16_Shape(r))
    /\ [][\A r \in Reqs : C16_Moves(r)]_vars
    /\ <>[](\A r \in Reqs : req[r].st \in {"none"} \cup C16_Terminal)

\* one request ended forwarded-error, another completed through the API
C16_Witness ==
    \E r, q \in Reqs :
        /\ req[r].st = "forwardedError"
        /\ req[q].st = "completed" /\ req[q].cls = "api"

\* C17: no call of ensureReady() has returned while the attempt it awaits
\* is unsettled, and its outcome is that attempt's; while the attempt
\* bootstrap awaits is unsettled bootstrap stays at its await, with no
\* router installed, no listener and no ready report; and the listener
\* does not start while the module-init hook still waits.
C17_NoReturnWhileUnsettled ==
    /\ \A c \in AllCallers :
          /\ caller[c].st = "resolved" => promise[caller[c].att] = "fulfilled"
          /\ caller[c].st = "rejected" => promise[caller[c].att] = "rejected"
    /\ (caller[Boot].att # 0 /\ promise[caller[Boot].att] = "pending") =>
          /\ caller[Boot].st = "waiting"
          /\ bootPc = "awaitReady"
          /\ "router" \notin Units
          /\ ~listening
          /\ ~reportedReady
    /\ caller[Hook].st = "waiting" => (bootPc = "awaitHook" /\ ~listening)

\* prepare() has not settled: bootstrap is blocked in its await
C17_Witness ==
    /\ caller[Boot].st = "waiting"
    /\ promise[caller[Boot].att] = "pending"
    /\ prep[caller[Boot].att] = "running"
    /\ bootPc = "awaitReady"
    /\ mq = <<>>

====
